---- MODULE Spec2Model ----
(***************************************************************************)
(* Warehouse inventory tracker (src/inventory_tracker.py).                 *)
(*                                                                         *)
(* The store is one CSV file that every operation reads whole and writes   *)
(* whole.  A text is a sequence of one-character strings; a CSV cell on    *)
(* disk is a text; a DataFrame cell is a typed value, because pandas       *)
(* infers a type per column when it parses the file and formats the value  *)
(* again when it writes it.  Library behaviour modelled is that of         *)
(* pandas 2.x (read_csv default NA strings and dtype inference, to_csv     *)
(* formatting, Series.str.contains with its default regex=True).           *)
(***************************************************************************)
EXTENDS Integers, Sequences, FiniteSets, TLC

\* ------------------------------------------------------------------ bounds
\* Rows the table may grow to.
MaxRows == 2
\* Writes of the file the model follows with one editor.
MaxWrites == 3
\* Writes of the file the model follows with two editors.
ConcWrites == 2
\* Seconds the model lets the wall clock advance.
MaxClock == 1

\* ------------------------------------------------------------------- texts
Digits == <<"0", "1", "2", "3", "4", "5", "6", "7", "8", "9">>

IsDigit(c) == \E i \in 1..10 : Digits[i] = c

DigitVal(c) == (CHOOSE i \in 1..10 : Digits[i] = c) - 1

RECURSIVE NatText(_)
\* str(n) of a non-negative integer.
NatText(n) ==
    IF n < 10 THEN <<Digits[n + 1]>>
    ELSE NatText(n \div 10) \o <<Digits[(n % 10) + 1]>>

RECURSIVE IntVal(_)
\* int(t) of a text of digits (leading zeros are dropped).
IntVal(t) ==
    IF Len(t) = 0 THEN 0
    ELSE IntVal(SubSeq(t, 1, Len(t) - 1)) * 10 + DigitVal(t[Len(t)])

IsIntText(t) == Len(t) > 0 /\ \A i \in 1..Len(t) : IsDigit(t[i])

\* The float texts to_csv produces from an integer-valued float: "<digits>.0".
IsFloatText(t) ==
    /\ Len(t) >= 3
    /\ t[Len(t) - 1] = "." /\ t[Len(t)] = "0"
    /\ IsIntText(SubSeq(t, 1, Len(t) - 2))

NumVal(t) == IF IsIntText(t) THEN IntVal(t) ELSE IntVal(SubSeq(t, 1, Len(t) - 2))

\* str.lower on the characters the model uses.
Lower(c) ==
    CASE c = "A" -> "a" [] c = "E" -> "e" [] c = "F" -> "f" [] c = "L" -> "l"
      [] c = "N" -> "n" [] c = "O" -> "o" [] c = "S" -> "s" [] c = "T" -> "t"
      [] OTHER -> c

\* ------------------------------------------------------- program constants
Full == <<"F", "u", "l", "l">>
Low == <<"L", "o", "w">>
Out == <<"O", "u", "t">>
\* options=["Full", "Low", "Out"]
LEVELS == {Full, Low, Out}

Emir == <<"E", "m", "i", "r", " ", "S", "e", "v", "i", "m">>
Enis == <<"E", "n", "i", "s", " ", "S", "e", "v", "i", "m">>
default_names == {Emir, Enis}

\* Strings read_csv takes for a missing value (pandas' default list holds
\* more: "N/A", "null", "None", ...; these stand for it).
NaTexts == {<<>>, <<"N", "A">>, <<"n", "a", "n">>}

\* --------------------------------------------------------- DataFrame cells
SStr(t) == [k |-> "str", s |-> t, n |-> 0]
SInt(n) == [k |-> "int", s |-> <<>>, n |-> n]
SFloat(n) == [k |-> "float", s |-> <<>>, n |-> n]
NaN == [k |-> "nan", s |-> <<>>, n |-> 0]
STs(n) == [k |-> "ts", s |-> <<>>, n |-> n]
NaT == [k |-> "nat", s |-> <<>>, n |-> 0]
\* No option selected in a selectbox.
None == [k |-> "none", s |-> <<>>, n |-> 0]

\* strftime("%Y-%m-%d %H:%M:%S"): the date, hour and minute are the same over
\* the modelled window and are written ":"; the seconds follow.
TsText(secs) == <<":">> \o NatText(secs)

\* pd.to_datetime of one cell of the 'Updated On' column.
ToDatetime(c) == IF c.k = "str" THEN STs(IntVal(Tail(c.s))) ELSE NaT

\* Series.dt.strftime of one cell: NaT becomes NaN.
Strftime(c) == IF c.k = "ts" THEN SStr(TsText(c.n)) ELSE NaN

\* Python's == between two cell values: 7 == 7.0, "7" != 7, nan != nan.
PyEq(a, b) ==
    CASE a.k = "str" /\ b.k = "str" -> a.s = b.s
      [] a.k \in {"int", "float"} /\ b.k \in {"int", "float"} -> a.n = b.n
      [] OTHER -> FALSE

\* Python's truth value: "" , 0, 0.0 and None are false, nan is true.
Truthy(a) ==
    CASE a.k = "str" -> a.s # <<>>
      [] a.k \in {"int", "float"} -> a.n # 0
      [] a.k = "none" -> FALSE
      [] OTHER -> TRUE

\* astype(str) of one cell.
PyStr(a) ==
    CASE a.k = "str" -> a.s
      [] a.k = "int" -> NatText(a.n)
      [] a.k = "float" -> NatText(a.n) \o <<".", "0">>
      [] a.k = "nan" -> <<"n", "a", "n">>
      [] a.k = "ts" -> TsText(a.n)
      [] a.k = "nat" -> <<"N", "a", "T">>
      [] OTHER -> <<"N", "o", "n", "e">>

\* ------------------------------------------------------------ CSV file I/O
Cols == {"SKU", "Notes", "Level", "By", "On"}

\* to_csv of one cell: a string as it is, a number formatted, a missing
\* value as the empty field.
ToCsvCell(a) ==
    CASE a.k = "str" -> a.s
      [] a.k = "int" -> NatText(a.n)
      [] a.k = "float" -> NatText(a.n) \o <<".", "0">>
      [] OTHER -> <<>>

\* DataFrame.to_csv(CSV_FILE, index=False)
ToCsv(df) == [i \in 1..Len(df) |-> [c \in Cols |-> ToCsvCell(df[i][c])]]

\* The dtype read_csv infers for column c of the file.
ColKind(file, c) ==
    LET all == {file[i][c] : i \in 1..Len(file)}
        present == {t \in all : t \notin NaTexts}
    IN  IF all = {} THEN "object"
        ELSE IF present = {} THEN "float"
        ELSE IF \A t \in present : IsIntText(t)
             THEN (IF present = all THEN "int" ELSE "float")
        ELSE IF \A t \in present : IsIntText(t) \/ IsFloatText(t) THEN "float"
        ELSE "object"

ParseCell(kind, t) ==
    IF t \in NaTexts THEN NaN
    ELSE CASE kind = "int" -> SInt(NumVal(t))
           [] kind = "float" -> SFloat(NumVal(t))
           [] OTHER -> SStr(t)

\* pd.read_csv(CSV_FILE)
ReadCsv(file) ==
    [i \in 1..Len(file) |-> [c \in Cols |-> ParseCell(ColKind(file, c), file[i][c])]]

\* load_data(): read_csv, then the 'Updated On' column through to_datetime.
load_data(file) ==
    LET df == ReadCsv(file)
    IN  [i \in 1..Len(df) |-> [df[i] EXCEPT !["On"] = ToDatetime(df[i]["On"])]]

\* -------------------------------------------------------------- the store
Min(S) == CHOOSE x \in S : \A y \in S : x <= y

\* The row update_csv appends for a SKU it does not find.
new_row(sku, new_notes, inventory_level, updated_by, updated_on) ==
    [SKU |-> sku, Notes |-> new_notes, Level |-> inventory_level,
     By |-> updated_by, On |-> updated_on]

\* datetime.now().strftime("%Y-%m-%d %H:%M:%S") when the clock reads `clock`
\* whole seconds: the fraction of the second is not kept.
updated_on_at(clock) == SStr(TsText(clock))

\* update_csv: read the whole file, replace the first row whose SKU equals
\* sku or append a row, write the whole file.  The result is the new file.
update_csv(file, sku, new_notes, updated_by, inventory_level, clock) ==
    LET df == ReadCsv(file)
        updated_on == updated_on_at(clock)
        hits == {i \in 1..Len(df) : PyEq(df[i]["SKU"], sku)}
    IN  IF hits # {}
        THEN LET idx == Min(hits)
             IN  ToCsv([df EXCEPT ![idx] =
                        [@ EXCEPT !["Notes"] = new_notes,
                                  !["Level"] = inventory_level,
                                  !["By"] = updated_by,
                                  !["On"] = updated_on]])
        ELSE ToCsv(Append(df, new_row(sku, new_notes, inventory_level,
                                      updated_by, updated_on)))

\* enhance_notes with the except branch returning nothing.
enhance_notes_drops(original_notes, raised, content) ==
    IF raised THEN <<>> ELSE content

\* enhance_notes: the remote answer, or the original notes when the call
\* raises.
enhance_notes(original_notes, raised, content) ==
    IF raised THEN original_notes ELSE content

\* ----------------------------------------------------------------- filters
\* re.search(pat, s, re.IGNORECASE) for patterns over the model's characters:
\* "." matches any one character, every other character matches itself.
Contains(s, pat) ==
    \E i \in 0..(Len(s) - Len(pat)) :
        \A j \in 1..Len(pat) : pat[j] = "." \/ Lower(pat[j]) = Lower(s[i + j])

\* row.astype(str).str.contains(global_search, case=False).any()
GlobalHit(row, q) == \E c \in Cols : Contains(PyStr(row[c]), q)

\* df[c].astype(str).str.contains(q, case=False)
FieldHit(row, c, q) == Contains(PyStr(row[c]), q)

\* Lines 248-258: each non-empty query narrows the frame in turn.
apply_filters(df, f) ==
    LET d1 == IF f.global # <<>>
              THEN SelectSeq(df, LAMBDA r : GlobalHit(r, f.global)) ELSE df
        d2 == IF f.sku # <<>>
              THEN SelectSeq(d1, LAMBDA r : FieldHit(r, "SKU", f.sku)) ELSE d1
        d3 == IF f.notes # <<>>
              THEN SelectSeq(d2, LAMBDA r : FieldHit(r, "Notes", f.notes)) ELSE d2
        d4 == IF f.by # <<>>
              THEN SelectSeq(d3, LAMBDA r : FieldHit(r, "By", f.by)) ELSE d3
    IN  d4

NoFilters == [global |-> <<>>, sku |-> <<>>, notes |-> <<>>, by |-> <<>>]

\* ---------------------------------------------------------------- the grid
\* A row added in the grid: every cell missing.
EmptyRow == [SKU |-> NaN, Notes |-> NaN, Level |-> NaN, By |-> NaN, On |-> NaT]

NoEdit == [kind |-> "none", row |-> 0, col |-> "SKU", val |-> NaN]

RemoveAt(s, i) == SubSeq(s, 1, i - 1) \o SubSeq(s, i + 1, Len(s))

\* What st.data_editor returns for frame df after the user's edit e.
data_editor(df, e) ==
    CASE e.kind = "cell" -> [df EXCEPT ![e.row] = [@ EXCEPT ![e.col] = e.val]]
      [] e.kind = "add" -> Append(df, EmptyRow)
      [] e.kind = "del" -> RemoveAt(df, e.row)
      [] OTHER -> df

\* A write-back that keeps the rows of the file whose SKU the edited frame
\* does not hold.
write_edited_merging(file, edited_df) ==
    LET mine == ToCsv([i \in 1..Len(edited_df) |->
                 [edited_df[i] EXCEPT !["On"] = Strftime(edited_df[i]["On"])]])
    IN  mine \o SelectSeq(file, LAMBDA r :
                    \A i \in 1..Len(mine) : mine[i]["SKU"] # r["SKU"])

\* Lines 292-294: 'Updated On' back to text, then edited_df.to_csv: the
\* edited frame, and only it, replaces whatever `file` holds.
write_edited(file, edited_df) ==
    ToCsv([i \in 1..Len(edited_df) |->
             [edited_df[i] EXCEPT !["On"] = Strftime(edited_df[i]["On"])]])

\* st.data_editor refuses a frame whose SKU or Notes column is numeric: the
\* column_config makes both TextColumn, which edits text columns only.  A
\* frame read from a file without rows has no typed column.
editor_raises(file) ==
    /\ Len(file) > 0
    /\ \/ ColKind(file, "SKU") # "object"
       \/ ColKind(file, "Notes") # "object"

\* ------------------------------------------------------------------ inputs
\* What the user may type or pick; each set holds an empty text, a plain
\* text, and the texts pandas treats specially (digits, a missing-value word).
SkuInputs == {<<>>, <<"a">>, <<"7">>}
NoteInputs == {<<>>, <<"a">>, <<"N", "A">>}
LevelInputs == {Full, Out}
\* What the remote model may answer.
EnhancerOutputs == {<<"b">>}
FilterInputs ==
    [global : {<<>>, <<".">>}, sku : {<<>>, <<"a">>, <<".">>},
     notes : {<<>>, <<"a">>}, by : {<<>>, <<"n", "i">>}]

\* The search inputs in place when the grid is drawn.
GridFilters ==
    {NoFilters, [NoFilters EXCEPT !.sku = <<"a">>], [NoFilters EXCEPT !.sku = <<".">>],
     [NoFilters EXCEPT !.notes = <<"a">>, !.by = <<"n", "i">>]}

\* A text the user leaves in a grid cell: an emptied cell is a missing value.
GridText(t) == IF t = <<>> THEN NaN ELSE SStr(t)

\* The edits one run of the script can receive from the grid: one cell of a
\* shown row retyped or repicked ('Updated On' is disabled), one empty row
\* added, one shown row deleted, or nothing.
Edits(frame) ==
    {NoEdit}
    \cup {[kind |-> "cell", row |-> i, col |-> "SKU", val |-> GridText(t)] :
            i \in 1..Len(frame), t \in SkuInputs}
    \cup {[kind |-> "cell", row |-> i, col |-> "Notes", val |-> GridText(t)] :
            i \in 1..Len(frame), t \in NoteInputs}
    \cup {[kind |-> "cell", row |-> i, col |-> "Level", val |-> SStr(t)] :
            i \in 1..Len(frame), t \in LevelInputs}
    \cup {[kind |-> "cell", row |-> i, col |-> "By", val |-> SStr(t)] :
            i \in 1..Len(frame), t \in default_names}
    \cup {[kind |-> "add", row |-> 0, col |-> "SKU", val |-> NaN]}
    \cup {[kind |-> "del", row |-> i, col |-> "SKU", val |-> NaN] :
            i \in 1..Len(frame)}

\* ------------------------------------------------------------------- state
VARIABLES
    CSV_FILE,       \* the rows of warehouse_inventory.csv, as texts
    now,            \* the wall clock, in whole seconds
    writes,         \* how many times the file has been written
    pc,             \* per session: where its run of the script stands
    current_skus,   \* per session: line 145
    df,             \* per session: the frame of lines 245-258
    nloaded,        \* per session: the rows line 245 loaded, before filtering
    last            \* the handler that ran in the last step, with its inputs

vars == <<CSV_FILE, now, writes, pc, current_skus, df, nloaded, last>>

Sessions == {"A", "B"}

SkuTexts(file) == {file[i]["SKU"] : i \in 1..Len(file)}

Rows(file) == {file[i] : i \in 1..Len(file)}

NoOp ==
    [op |-> "none", s |-> "A", wrote |-> FALSE, sku |-> None, notes |-> <<>>,
     level |-> <<>>, by |-> <<>>, ai |-> FALSE, raised |-> FALSE,
     enhanced |-> FALSE, edit |-> NoEdit, hidden |-> 0,
     prior |-> "none", priorsku |-> <<>>]

\* initialize_csv(): the header and no rows.
initialize_csv == <<>>

InitFor(S) ==
    /\ CSV_FILE = initialize_csv
    /\ now = 0
    /\ writes = 0
    /\ pc = [s \in S |-> "idle"]
    /\ current_skus = [s \in S |-> <<>>]
    /\ df = [s \in S |-> <<>>]
    /\ nloaded = [s \in S |-> 0]
    /\ last = NoOp

\* The session's view is dropped when its run ends or restarts.
EndRun(s, to) ==
    /\ pc' = [pc EXCEPT ![s] = to]
    /\ current_skus' = [current_skus EXCEPT ![s] = <<>>]
    /\ df' = [df EXCEPT ![s] = <<>>]
    /\ nloaded' = [nloaded EXCEPT ![s] = 0]

\* to_csv(CSV_FILE): the file becomes `file`.
Write(file, budget) ==
    /\ writes < budget
    /\ Len(file) <= MaxRows
    /\ CSV_FILE' = file
    /\ writes' = writes + 1

\* A second passes.  Steps with no tick between them fall in one second.
tick ==
    /\ now < MaxClock
    /\ now' = now + 1
    /\ last' = NoOp
    /\ UNCHANGED <<CSV_FILE, writes, pc, current_skus, df, nloaded>>

\* A user interaction starts a run of the script: line 145 reads the SKUs.
rerun(s, budget) ==
    /\ pc[s] = "idle"
    /\ writes < budget
    /\ pc' = [pc EXCEPT ![s] = "forms"]
    /\ current_skus' = [current_skus EXCEPT ![s] =
            [i \in 1..Len(CSV_FILE) |-> load_data(CSV_FILE)[i]["SKU"]]]
    /\ last' = NoOp
    /\ UNCHANGED <<CSV_FILE, now, writes, df, nloaded>>

\* Line 188: if selected_sku and new_notes and updated_by
update_form_valid(selected_sku, new_notes, updated_by) ==
    Truthy(selected_sku) /\ new_notes # <<>> /\ updated_by # <<>>

\* The add form's check without its test of the notes.
add_form_valid_no_notes(new_sku, new_notes, updated_by) ==
    new_sku # <<>> /\ updated_by # <<>>

\* Line 226: if new_sku and new_notes and updated_by
add_form_valid(new_sku, new_notes, updated_by) ==
    new_sku # <<>> /\ new_notes # <<>> /\ updated_by # <<>>

\* Line 227: if new_sku in current_skus
sku_exists(new_sku, skus) == \E i \in 1..Len(skus) : PyEq(SStr(new_sku), skus[i])

\* Lines 160-162: the pre-fill looks the selected SKU up in a fresh load;
\* .iloc[0] raises when no row matches.
prefill_raises(file, selected_sku) ==
    /\ Truthy(selected_sku)
    /\ ~\E i \in 1..Len(file) : PyEq(load_data(file)[i]["SKU"], selected_sku)

\* Lines 147-199: the "Update Existing" tab with its button pressed.
update_form(s, budget) ==
    /\ pc[s] = "forms"
    /\ \E sel \in 0..Len(current_skus[s]), new_notes \in NoteInputs,
          inventory_level \in LevelInputs, updated_by \in default_names,
          enhance_with_ai \in BOOLEAN, raised \in BOOLEAN,
          content \in EnhancerOutputs :
        LET selected_sku == IF sel = 0 THEN None ELSE current_skus[s][sel]
            valid == update_form_valid(selected_sku, new_notes, updated_by)
            notes == IF enhance_with_ai
                     THEN enhance_notes(new_notes, raised, content)
                     ELSE new_notes
            file == update_csv(CSV_FILE, selected_sku, SStr(notes),
                               SStr(updated_by), SStr(inventory_level), now)
            rec == [NoOp EXCEPT !.op = "update", !.s = s, !.sku = selected_sku,
                                !.notes = new_notes, !.level = inventory_level,
                                !.by = updated_by, !.ai = enhance_with_ai,
                                !.raised = enhance_with_ai /\ raised]
        IN  /\ (enhance_with_ai \/ ~raised)
            /\ IF prefill_raises(CSV_FILE, selected_sku)
               THEN /\ EndRun(s, "idle")
                    /\ last' = [rec EXCEPT !.op = "raise"]
                    /\ UNCHANGED <<CSV_FILE, writes>>
               ELSE IF valid
               THEN /\ Write(file, budget)
                    /\ last' = [rec EXCEPT !.wrote = TRUE,
                                           !.enhanced = enhance_with_ai]
                    /\ EndRun(s, "idle")
               ELSE /\ last' = [rec EXCEPT !.level = <<>>, !.by = <<>>,
                                           !.raised = FALSE]
                    /\ EndRun(s, "grid")
                    /\ UNCHANGED <<CSV_FILE, writes>>
    /\ UNCHANGED now

\* Lines 201-241: the "Add New" tab with its button pressed.
add_form(s, budget) ==
    /\ pc[s] = "forms"
    /\ \E new_sku \in SkuInputs, new_notes \in NoteInputs,
          inventory_level \in LevelInputs, updated_by \in default_names,
          enhance_with_ai \in BOOLEAN, raised \in BOOLEAN,
          content \in EnhancerOutputs :
        LET valid == add_form_valid(new_sku, new_notes, updated_by)
            notes == IF enhance_with_ai
                     THEN enhance_notes(new_notes, raised, content)
                     ELSE new_notes
            file == update_csv(CSV_FILE, SStr(new_sku), SStr(notes),
                               SStr(updated_by), SStr(inventory_level), now)
            rec == [NoOp EXCEPT !.op = "add", !.s = s, !.sku = SStr(new_sku),
                                !.notes = new_notes, !.level = inventory_level,
                                !.by = updated_by, !.ai = enhance_with_ai,
                                !.raised = enhance_with_ai /\ raised]
        IN  /\ (enhance_with_ai \/ ~raised)
            /\ IF valid /\ ~sku_exists(new_sku, current_skus[s])
               THEN /\ Write(file, budget)
                    /\ last' = [rec EXCEPT !.wrote = TRUE,
                                           !.enhanced = enhance_with_ai]
                    /\ EndRun(s, "idle")
               ELSE /\ last' = [rec EXCEPT !.level = <<>>, !.by = <<>>,
                                           !.raised = FALSE]
                    /\ EndRun(s, "grid")
                    /\ UNCHANGED <<CSV_FILE, writes>>
    /\ UNCHANGED now

\* Neither form button was pressed: the script goes on to the grid.
skip_forms(s) ==
    /\ pc[s] = "forms"
    /\ EndRun(s, "grid")
    /\ last' = NoOp
    /\ UNCHANGED <<CSV_FILE, now, writes>>

\* Lines 245-287: load the table, narrow it by the search inputs and hand
\* the frame to the grid, which raises on a frame it cannot edit.
load_grid(s) ==
    /\ pc[s] = "grid"
    /\ IF editor_raises(CSV_FILE)
       THEN /\ EndRun(s, "idle")
            /\ last' = [NoOp EXCEPT !.op = "raise", !.s = s]
       ELSE /\ \E f \in GridFilters :
                df' = [df EXCEPT ![s] = apply_filters(load_data(CSV_FILE), f)]
            /\ nloaded' = [nloaded EXCEPT ![s] = Len(CSV_FILE)]
            /\ pc' = [pc EXCEPT ![s] = "editor"]
            /\ last' = NoOp
            /\ UNCHANGED current_skus
    /\ UNCHANGED <<CSV_FILE, now, writes>>

\* Lines 262-295: the grid returns the edited frame; if it differs from df
\* it is written over the file, whatever the file holds by then, and the
\* script restarts.
write_back(s, budget) ==
    /\ pc[s] = "editor"
    /\ \E e \in Edits(df[s]) :
        LET edited_df == data_editor(df[s], e)
            rec == [NoOp EXCEPT
                      !.op = "grid", !.s = s, !.edit = e,
                      !.hidden = nloaded[s] - Len(df[s]),
                      !.prior = IF last.wrote /\ last.s # s THEN last.op ELSE "none",
                      !.priorsku = IF last.wrote /\ last.s # s
                                   THEN ToCsvCell(last.sku) ELSE <<>>]
        IN  IF edited_df # df[s]
            THEN /\ Write(write_edited(CSV_FILE, edited_df), budget)
                 /\ last' = [rec EXCEPT !.wrote = TRUE]
            ELSE /\ last' = rec
                 /\ UNCHANGED <<CSV_FILE, writes>>
    /\ EndRun(s, "idle")
    /\ UNCHANGED now

step(s, budget) ==
    \/ rerun(s, budget)
    \/ update_form(s, budget)
    \/ add_form(s, budget)
    \/ skip_forms(s)
    \/ load_grid(s)
    \/ write_back(s, budget)

\* One editor, as the program is meant to be used.
Init == InitFor({"A"})
Next == tick \/ step("A", MaxWrites)
Spec == Init /\ [][Next]_vars

\* Two editors on the same file.
InitConc == InitFor(Sessions)
NextConc == tick \/ \E s \in Sessions : step(s, ConcWrites)
SpecConc == InitConc /\ [][NextConc]_vars

\* ------------------------------------------------------------------ claims
\* What the page shows of a row: each cell through str().
Shown(row) == [c \in Cols |-> PyStr(row[c])]

\* The rows of frame d whose SKU equals the value sku, as update_csv compares.
Hits(d, sku) == {i \in 1..Len(d) : PyEq(d[i]["SKU"], sku)}

\* C1: adding a non-empty SKU the table does not hold, with non-empty notes
\* and AI enhancement off, then loading, gives a table one row longer in which
\* exactly one record has that SKU and carries the submitted notes, level and
\* editor, every earlier record being as it was.
C1_AddThenLoad ==
    [][(/\ last'.op = "add" /\ ~last'.ai
        /\ last'.sku.s # <<>> /\ last'.notes # <<>>
        /\ last'.sku.s \notin SkuTexts(CSV_FILE))
       => LET before == load_data(CSV_FILE)
              after == load_data(CSV_FILE')
              mine == {i \in 1..Len(after) : PyStr(after[i]["SKU"]) = last'.sku.s}
          IN  /\ Len(after) = Len(before) + 1
              /\ Cardinality(mine) = 1
              /\ \A i \in mine :
                    /\ PyStr(after[i]["Notes"]) = last'.notes
                    /\ PyStr(after[i]["Level"]) = last'.level
                    /\ PyStr(after[i]["By"]) = last'.by
              /\ \A i \in 1..Len(before) :
                    i <= Len(after) /\ Shown(after[i]) = Shown(before[i])]_vars

\* C2: updating a SKU the table holds, then loading, replaces that record's
\* notes, level and editor, keeps its SKU, keeps the row count and keeps every
\* other record.
C2_UpdateThenLoad ==
    [][(/\ last'.op = "update" /\ ~last'.ai
        /\ last'.sku # None /\ last'.notes # <<>>)
       => LET before == load_data(CSV_FILE)
              after == load_data(CSV_FILE')
              hits == Hits(before, last'.sku)
          IN  /\ hits # {}
              /\ Len(after) = Len(before)
              /\ LET idx == Min(hits)
                 IN  /\ PyStr(after[idx]["SKU"]) = PyStr(before[idx]["SKU"])
                     /\ PyStr(after[idx]["Notes"]) = last'.notes
                     /\ PyStr(after[idx]["Level"]) = last'.level
                     /\ PyStr(after[idx]["By"]) = last'.by
                     /\ \A j \in 1..Len(before) :
                           j # idx => Shown(after[j]) = Shown(before[j])]_vars

\* C3: an add-form submission whose SKU the stored table already holds is
\* rejected: the file after it is the file before it.
C3_DuplicateAddRejected ==
    [][(last'.op = "add" /\ last'.sku.s \in SkuTexts(CSV_FILE))
       => CSV_FILE' = CSV_FILE]_vars

\* C4: no two stored records have the same SKU, in any state reached from
\* the empty table by form submissions and grid edits.
C4_SkuUnique ==
    \A i, j \in 1..Len(CSV_FILE) :
        (i # j /\ CSV_FILE[i]["SKU"] # <<>>) => CSV_FILE[i]["SKU"] # CSV_FILE[j]["SKU"]

\* C5: a grid write keeps every stored record the filters kept out of the
\* grid: each is still in the file, unchanged, after the write.
C5_GridWriteKeepsHiddenRows ==
    [][(last'.op = "grid" /\ last'.wrote)
       => \A i \in 1..Len(CSV_FILE) :
             (\A k \in 1..Len(df[last'.s]) :
                  df[last'.s][k] # load_data(CSV_FILE)[i])
             => CSV_FILE[i] \in Rows(CSV_FILE')]_vars

\* C6: when AI enhancement is ticked on a form and the remote call raises,
\* the save goes ahead and the note stored for the SKU is the text the user
\* submitted.
C6_EnhancerFailureKeepsNote ==
    (last.op \in {"add", "update"} /\ last.ai /\ last.raised)
    => /\ last.wrote
       /\ \E i \in 1..Len(CSV_FILE) :
             /\ CSV_FILE[i]["SKU"] = ToCsvCell(last.sku)
             /\ CSV_FILE[i]["Notes"] = last.notes

C6_Witness ==
    /\ last.op = "update" /\ last.ai /\ last.raised /\ last.wrote
    /\ last.notes = <<"N", "A">>
    /\ \E i \in 1..Len(CSV_FILE) :
          CSV_FILE[i]["SKU"] = ToCsvCell(last.sku) /\ CSV_FILE[i]["Notes"] = last.notes

\* C7: a form submission with a required field missing (no SKU selected or
\* entered, or empty notes) writes nothing and does not call the enhancer.
C7_MissingFieldNoWrite ==
    [][(/\ last'.op \in {"add", "update"}
        /\ \/ last'.sku = None
           \/ last'.sku = SStr(<<>>)
           \/ last'.notes = <<>>)
       => (CSV_FILE' = CSV_FILE /\ ~last'.enhanced /\ ~last'.wrote)]_vars

C7_Witness ==
    /\ last.op = "add" /\ last.ai /\ ~last.wrote
    /\ last.sku = SStr(<<"a">>) /\ last.notes = <<>>
    /\ Len(CSV_FILE) > 0 /\ <<"a">> \notin SkuTexts(CSV_FILE)

\* C8: after an update of an existing SKU the record's timestamp, as loaded,
\* is strictly greater than the one it had, also for two writes in quick
\* succession.
C8_TimestampStrictlyGreater ==
    [][(last'.op = "update" /\ last'.wrote)
       => LET before == load_data(CSV_FILE)
              after == load_data(CSV_FILE')
              hits == Hits(before, last'.sku)
          IN  \A idx \in hits :
                 (idx = Min(hits) /\ before[idx]["On"].k = "ts")
                 => /\ idx <= Len(after)
                    /\ after[idx]["On"].k = "ts"
                    /\ after[idx]["On"].n > before[idx]["On"].n]_vars

\* Plain case-insensitive substring test.
Substring(s, q) ==
    \E i \in 0..(Len(s) - Len(q)) :
        \A j \in 1..Len(q) : Lower(q[j]) = Lower(s[i + j])

\* The conjunction of the non-empty queries' substring tests.
Satisfies(r, f) ==
    /\ f.global = <<>> \/ \E c \in Cols : Substring(PyStr(r[c]), f.global)
    /\ f.sku = <<>> \/ Substring(PyStr(r["SKU"]), f.sku)
    /\ f.notes = <<>> \/ Substring(PyStr(r["Notes"]), f.notes)
    /\ f.by = <<>> \/ Substring(PyStr(r["By"]), f.by)

\* The filters of lines 248-258 applied in the opposite order.
apply_filters_reversed(d, f) ==
    LET d1 == IF f.by # <<>>
              THEN SelectSeq(d, LAMBDA r : FieldHit(r, "By", f.by)) ELSE d
        d2 == IF f.notes # <<>>
              THEN SelectSeq(d1, LAMBDA r : FieldHit(r, "Notes", f.notes)) ELSE d1
        d3 == IF f.sku # <<>>
              THEN SelectSeq(d2, LAMBDA r : FieldHit(r, "SKU", f.sku)) ELSE d2
        d4 == IF f.global # <<>>
              THEN SelectSeq(d3, LAMBDA r : GlobalHit(r, f.global)) ELSE d3
    IN  d4

\* C9: for every combination of queries the shown subset is exactly the
\* loaded records that pass every non-empty query's case-insensitive
\* substring test, whatever the order of the filters, and empty queries
\* remove nothing.
C9_FiltersAreSubstringAnd ==
    LET d == load_data(CSV_FILE)
    IN  /\ apply_filters(d, NoFilters) = d
        /\ \A f \in FilterInputs :
              /\ apply_filters(d, f) = apply_filters_reversed(d, f)
              /\ apply_filters(d, f) = SelectSeq(d, LAMBDA r : Satisfies(r, f))

\* C10: with two editors writes are last-write-wins with no conflict
\* detection: a grid write leaves in the file no row but those of the
\* writer's edited frame, so a record another session saved after the writer
\* loaded is gone.
C10_LastWriteWins ==
    [][(last'.op = "grid" /\ last'.wrote)
       => LET mine == write_edited(<<>>, data_editor(df[last'.s], last'.edit))
          IN  \A r \in Rows(CSV_FILE) : r \notin Rows(mine) => r \notin Rows(CSV_FILE')]_vars

\* Session A loaded with nothing filtered out, session B then saved a record
\* through a form, then A wrote an edit that deletes nothing and touches no
\* SKU: B's record is not in the file.
C10_Witness ==
    /\ last.op = "grid" /\ last.s = "A" /\ last.wrote
    /\ last.hidden = 0
    /\ \/ last.edit.kind = "add"
       \/ last.edit.kind = "cell" /\ last.edit.col # "SKU"
    /\ last.prior \in {"add", "update"}
    /\ last.priorsku # <<>>
    /\ last.priorsku \notin SkuTexts(CSV_FILE)
====
